---- MODULE Spec2Model ----
(***************************************************************************)
(* A model of har-to-ts (src/src/cli.ts): the identifier registry, the    *)
(* content-shape hash, schema inference from JSON and form data, and the  *)
(* generateFromHar run that groups capture entries and emits types and    *)
(* functions.                                                              *)
(*                                                                         *)
(* Text is modelled as a sequence of one-character strings, so that the    *)
(* regular expressions, the URL and JSON parsers and the rolling hash of   *)
(* the source are computed character by character.                         *)
(***************************************************************************)
EXTENDS Integers, Sequences, FiniteSets, TLC

VARIABLES
    propertyRegistry,  \* the module-level Map raw name -> identifier
    call,              \* unit calls: the last call made and what it returned
    invocations,       \* run -> the arguments generateFromHar was called with
    pc,                \* run -> where the run is
    running,           \* the run that holds the JavaScript thread, or NoRun
    entries,           \* run -> har.log.entries after the filter
    endpointGroups,    \* run -> Map key -> entries, in insertion order
    typeRegistry,      \* run -> Map type name -> TypeEntry, in insertion order
    output,            \* run -> what was appended to output, in order
    gi,                \* run -> index of the group being processed
    ei,                \* run -> index of the entry the current loop is at
    paramsType,        \* run -> paramsType of the current group
    bodyType,          \* run -> bodyType of the current group
    responseType       \* run -> responseType of the current group

runVars == <<invocations, pc, running, entries, endpointGroups, typeRegistry,
             output, gi, ei, paramsType, bodyType, responseType>>
vars == <<propertyRegistry, call, invocations, pc, running, entries,
          endpointGroups, typeRegistry, output, gi, ei, paramsType, bodyType,
          responseType>>

(***************************************************************************)
(* Characters and strings                                                  *)
(***************************************************************************)
Lower == <<"a","b","c","d","e","f","g","h","i","j","k","l","m",
           "n","o","p","q","r","s","t","u","v","w","x","y","z">>
Upper == <<"A","B","C","D","E","F","G","H","I","J","K","L","M",
           "N","O","P","Q","R","S","T","U","V","W","X","Y","Z">>
Digits == <<"0","1","2","3","4","5","6","7","8","9">>

\* The characters with codes 32 .. 126, in code order (code 96 is spelled out).
Ascii == <<" ","!","\"","#","$","%","&","'","(",")","*","+",",","-",".","/">>
         \o Digits \o <<":",";","<","=",">","?","@">> \o Upper
         \o <<"[","\\","]","^","_","backtick">> \o Lower \o <<"{","|","}","~">>

\* LET x == v IN F(x), with v evaluated once.
Bind(v, F(_)) == CHOOSE r \in {F(x) : x \in {v}} : TRUE

Range(s) == {s[i] : i \in 1..Len(s)}
IndexOf(s, c) == CHOOSE i \in 1..Len(s) : s[i] = c

Alpha == Range(Lower) \cup Range(Upper)
Digit == Range(Digits)
AlphaNum == Alpha \cup Digit
Word == AlphaNum \cup {"_"}          \* \w
Space == {" ", "\n", "\t"}           \* \s

charCodeAt(c) == IF c = "\n" THEN 10 ELSE IF c = "\t" THEN 9 ELSE 31 + IndexOf(Ascii, c)

toUpperCase(s) == [i \in 1..Len(s) |->
                     IF s[i] \in Range(Lower) THEN Upper[IndexOf(Lower, s[i])] ELSE s[i]]
toLowerCase(s) == [i \in 1..Len(s) |->
                     IF s[i] \in Range(Upper) THEN Lower[IndexOf(Upper, s[i])] ELSE s[i]]

\* The first index from i on whose character is outside cls (Len(s)+1 if none).
RunEnd(s, i, cls) ==
    IF \E j \in i..Len(s) : s[j] \notin cls
    THEN CHOOSE j \in i..Len(s) : s[j] \notin cls /\ \A k \in i..(j-1) : s[k] \in cls
    ELSE Len(s) + 1

\* The first index from i on whose character is in cls (Len(s)+1 if none).
FindAny(s, i, cls) ==
    IF \E j \in i..Len(s) : s[j] \in cls
    THEN CHOOSE j \in i..Len(s) : s[j] \in cls /\ \A k \in i..(j-1) : s[k] \notin cls
    ELSE Len(s) + 1

StartsWithAt(s, i, p) == i + Len(p) - 1 <= Len(s) /\ SubSeq(s, i, i + Len(p) - 1) = p
startsWith(s, p) == StartsWithAt(s, 1, p)
endsWith(s, p) == Len(p) <= Len(s) /\ SubSeq(s, Len(s) - Len(p) + 1, Len(s)) = p
From(s, i) == SubSeq(s, i, Len(s))

RECURSIVE JoinFrom(_, _, _)
JoinFrom(parts, i, sep) ==
    IF i > Len(parts) THEN <<>>
    ELSE IF i = Len(parts) THEN parts[i]
    ELSE parts[i] \o sep \o JoinFrom(parts, i + 1, sep)

\* parts.join(sep)
Join(parts, sep) == JoinFrom(parts, 1, sep)

\* s.split(c) for a one-character separator c.
RECURSIVE SplitFrom(_, _, _)
SplitFrom(s, i, c) ==
    Bind(FindAny(s, i, {c}),
         LAMBDA j : IF j > Len(s) THEN <<SubSeq(s, i, Len(s))>>
                    ELSE <<SubSeq(s, i, j - 1)>> \o SplitFrom(s, j + 1, c))

Split(s, c) == SplitFrom(s, 1, c)

\* parts.filter(Boolean)
SelectNonEmpty(parts) == SelectSeq(parts, LAMBDA part : part # <<>>)

\* Number.prototype.toString(radix) of a natural number, radix 10 or 36.
RECURSIVE NatToString(_, _)
NatToString(n, radix) ==
    IF n < radix THEN <<(Digits \o Lower)[n + 1]>>
    ELSE Bind(n \div radix, LAMBDA q :
            NatToString(q, radix) \o <<(Digits \o Lower)[(n % radix) + 1]>>)

IntToString(n, radix) ==
    IF n < 0 THEN <<"-">> \o NatToString(0 - n, radix) ELSE NatToString(n, radix)

\* String literals of the source.
T_interface == <<"i","n","t","e","r","f","a","c","e">>
T_type == <<"t","y","p","e">>
T_any == <<"a","n","y">>
T_string == <<"s","t","r","i","n","g">>
T_number == <<"n","u","m","b","e","r">>
T_boolean == <<"b","o","o","l","e","a","n">>
T_true == <<"t","r","u","e">>
T_false == <<"f","a","l","s","e">>
T_null == <<"n","u","l","l">>
T_http == <<"h","t","t","p">>
T_root == <<"r","o","o","t">>
T_Request == <<"R","e","q","u","e","s","t">>
T_Response == <<"R","e","s","p","o","n","s","e">>
T_Params == <<"P","a","r","a","m","s">>
T_undefined == <<"u","n","d","e","f","i","n","e","d">>
T_unknown == <<"u","n","k","n","o","w","n">>
T_ResponseBase == <<"R","e","s","p","o","n","s","e","B","a","s","e">>
T_formMime == <<"a","p","p","l","i","c","a","t","i","o","n","/","x","-","w","w","w","-",
                "f","o","r","m","-","u","r","l","e","n","c","o","d","e","d">>
T_jsonMime == <<"a","p","p","l","i","c","a","t","i","o","n","/","j","s","o","n">>

includes(s, p) == \E i \in 1..(Len(s) + 1) : StartsWithAt(s, i, p)

(***************************************************************************)
(* hashType                                                                *)
(***************************************************************************)
\* The first index from i on where p starts (Len(s)+1 if none).
FindText(s, i, p) ==
    IF \E j \in i..Len(s) : StartsWithAt(s, j, p)
    THEN CHOOSE j \in i..Len(s) :
            StartsWithAt(s, j, p) /\ \A k \in i..(j-1) : ~StartsWithAt(s, k, p)
    ELSE Len(s) + 1

\* content.replace(/\s+/g, " "): the first character of each run of white
\* space becomes a space, the rest of the run goes.
CollapseSpace(s) ==
    Bind(SelectSeq([i \in 1..Len(s) |-> i],
                   LAMBDA i : s[i] \notin Space \/ i = 1 \/ s[i - 1] \notin Space),
         LAMBDA kept : [k \in 1..Len(kept) |->
                          IF s[kept[k]] \in Space THEN " " ELSE s[kept[k]]])

\* .replace(/interface\s+\w+\s+/g, "interface "), from index i on.
RECURSIVE EraseInterfaceName(_, _)
EraseInterfaceName(s, i) ==
    Bind(FindText(s, i, T_interface), LAMBDA at :
        IF at > Len(s) THEN SubSeq(s, i, Len(s))
        ELSE Bind(RunEnd(s, at + Len(T_interface), Space), LAMBDA b :
             Bind(RunEnd(s, b, Word), LAMBDA c :
             Bind(RunEnd(s, c, Space), LAMBDA d :
                IF b > at + Len(T_interface) /\ c > b /\ d > c
                THEN SubSeq(s, i, at - 1) \o T_interface \o <<" ">>
                     \o EraseInterfaceName(s, d)
                ELSE SubSeq(s, i, at) \o EraseInterfaceName(s, at + 1)))))

\* .trim()
Trim(s) ==
    Bind(RunEnd(s, 1, Space), LAMBDA a :
        IF a > Len(s) THEN <<>>
        ELSE SubSeq(s, a, CHOOSE j \in a..Len(s) :
                             s[j] \notin Space /\ \A k \in (j+1)..Len(s) : s[k] \in Space))

NormalizeContent(content) ==
    Bind(CollapseSpace(content), LAMBDA collapsed :
    Bind(EraseInterfaceName(collapsed, 1), LAMBDA erased : Trim(erased)))

\* hash = (hash << 5) - hash + char; hash = hash & hash: 31 * hash + char
\* wrapped to 32 bits. The accumulator is kept as two 16-bit halves, next to
\* the loop index i.
HashChar(h, char) ==
    [i |-> h.i + 1,
     hi |-> (h.hi * 31 + ((h.lo * 31 + char) \div 65536)) % 65536,
     lo |-> (h.lo * 31 + char) % 65536]

RECURSIVE HashLoop(_, _)
HashLoop(s, h) ==
    IF h.i > Len(s) THEN h ELSE HashLoop(s, HashChar(h, charCodeAt(s[h.i])))

ToInt32(h) == IF h.hi >= 32768 THEN (h.hi - 65536) * 65536 + h.lo
              ELSE h.hi * 65536 + h.lo

hashType(content) ==
    Bind(NormalizeContent(content), LAMBDA normalizedContent :
    Bind(HashLoop(normalizedContent, [i |-> 1, hi |-> 0, lo |-> 0]), LAMBDA hash :
    Bind(ToInt32(hash), LAMBDA n : IntToString(n, 36))))

(***************************************************************************)
(* normalizeTypeName, URL, getResourceName, createFunctionName             *)
(***************************************************************************)
Capitalize(part) == toUpperCase(SubSeq(part, 1, 1)) \o toLowerCase(From(part, 2))

\* name.split(/[^a-zA-Z0-9]+/).map(capitalize).join(""): the empty parts a
\* leading or trailing separator gives contribute the empty string.
RECURSIVE TitleCaseFrom(_, _)
TitleCaseFrom(name, i) ==
    IF i > Len(name) THEN <<>>
    ELSE IF name[i] \notin AlphaNum THEN TitleCaseFrom(name, i + 1)
    ELSE Bind(RunEnd(name, i, AlphaNum), LAMBDA j :
            toUpperCase(<<name[i]>>) \o toLowerCase(SubSeq(name, i + 1, j - 1))
            \o TitleCaseFrom(name, j))

normalizeTypeName(name) == TitleCaseFrom(name, 1)

SpecialSchemes == {<<"h","t","t","p">>, <<"h","t","t","p","s">>, <<"f","t","p">>,
                   <<"w","s">>, <<"w","s","s">>, <<"f","i","l","e">>}

InvalidURL == [ok |-> FALSE, protocol |-> <<>>, host |-> <<>>, pathname |-> <<>>,
               search |-> <<>>]

\* The authority, path and query of a URL whose scheme ends before colon.
URLAfterScheme(input, colon, scheme) ==
    LET special == scheme \in SpecialSchemes
        slashes == StartsWithAt(input, colon + 1, <<"/","/">>)
    IN Bind(IF special THEN RunEnd(input, colon + 1, {"/", "\\"})
            ELSE IF slashes THEN colon + 3 ELSE colon + 1, LAMBDA a :
       Bind(IF special \/ slashes THEN FindAny(input, a, {"/", "?", "#"}) ELSE a, LAMBDA b :
       Bind(FindAny(input, b, {"?", "#"}), LAMBDA c :
       Bind(FindAny(input, c, {"#"}), LAMBDA d :
          IF special /\ b = a THEN InvalidURL
          ELSE [ok |-> TRUE,
                protocol |-> scheme \o <<":">>,
                host |-> IF special \/ slashes THEN toLowerCase(SubSeq(input, a, b - 1))
                         ELSE <<>>,
                pathname |-> IF special /\ b = c THEN <<"/">> ELSE SubSeq(input, b, c - 1),
                search |-> IF c <= Len(input) /\ input[c] = "?" /\ d > c + 1
                           THEN SubSeq(input, c, d - 1) ELSE <<>>]))))

\* new URL(input) without a base: the scheme, the authority, the path and the
\* query of the WHATWG parser. ok = FALSE stands for the TypeError it throws.
\* Dot segments, percent-encoding, credentials and ports are not modelled.
ParseURL(input) ==
    Bind(FindAny(input, 1, {":"}), LAMBDA colon :
        IF /\ colon <= Len(input)
           /\ colon > 1
           /\ input[1] \in Alpha
           /\ \A k \in 1..(colon - 1) : input[k] \in AlphaNum \cup {"+", "-", "."}
        THEN Bind(toLowerCase(SubSeq(input, 1, colon - 1)),
                  LAMBDA scheme : URLAfterScheme(input, colon, scheme))
        ELSE InvalidURL)

getResourceName(url) ==
    Bind(SelectNonEmpty(Split(url.pathname, "/")), LAMBDA pathParts :
        IF pathParts = <<>> THEN T_root ELSE pathParts[Len(pathParts)])

\* .replace(/_+/g, "_")
CollapseUnderscores(s) ==
    SelectSeq([i \in 1..Len(s) |-> IF s[i] = "_" /\ i > 1 /\ s[i - 1] = "_" THEN "" ELSE s[i]],
              LAMBDA c : c # "")

createFunctionName(url, method) ==
    LET httpsP == <<"h","t","t","p","s",":","/","/">>
        httpP == <<"h","t","t","p",":","/","/">>
        start == IF startsWith(url, httpsP) THEN Len(httpsP) + 1
                 ELSE IF startsWith(url, httpP) THEN Len(httpP) + 1
                 ELSE 1
    IN Bind(SubSeq(url, start, FindAny(url, start, {"?", "#"}) - 1), LAMBDA first :
       Bind([i \in 1..Len(first) |-> IF first[i] \in AlphaNum THEN first[i] ELSE "_"],
            LAMBDA under :
       Bind(CollapseUnderscores(under), LAMBDA clean :
          toLowerCase(method) \o <<"_">>
          \o SubSeq(clean, 1, IF Len(clean) < 80 THEN Len(clean) ELSE 80))))

(***************************************************************************)
(* normalizePropertyName and the propertyRegistry                          *)
(***************************************************************************)
EmptyMap == [k \in {} |-> <<>>]
MapSet(m, k, v) == [x \in DOMAIN m \cup {k} |-> IF x = k THEN v ELSE m[x]]
MapValues(m) == {m[k] : k \in DOMAIN m}

\* name.replace(/^(ep\.|epn\.|_)/, "")
StripPrefix(name) ==
    IF startsWith(name, <<"e","p",".">>) THEN From(name, 4)
    ELSE IF startsWith(name, <<"e","p","n",".">>) THEN From(name, 5)
    ELSE IF startsWith(name, <<"_">>) THEN From(name, 2)
    ELSE name

\* .replace(/[^a-zA-Z0-9_]/g, "_")
ReplaceNonWord(s) == [i \in 1..Len(s) |-> IF s[i] \in Word THEN s[i] ELSE "_"]

\* UniqueName with an if in place of the while: the suffixed name is not
\* checked again; C3 must tell the two apart.
UniqueNameOnce(reg, normalizedName, uniqueName, counter) ==
    IF uniqueName \in MapValues(reg)
    THEN normalizedName \o <<"_">> \o NatToString(counter, 10)
    ELSE uniqueName

\* The while loop of normalizePropertyName.
RECURSIVE UniqueName(_, _, _, _)
UniqueName(reg, normalizedName, uniqueName, counter) ==
    IF uniqueName \in MapValues(reg)
    THEN Bind(normalizedName \o <<"_">> \o NatToString(counter, 10), LAMBDA next :
            UniqueName(reg, normalizedName, next, counter + 1))
    ELSE uniqueName

\* Returns the registry after the call and the identifier returned.
normalizePropertyName(reg, name) ==
    IF name \in DOMAIN reg
    THEN [reg |-> reg, id |-> reg[name]]
    ELSE Bind(ReplaceNonWord(StripPrefix(name)), LAMBDA normalizedName :
         Bind(UniqueName(reg, normalizedName, normalizedName, 1), LAMBDA uniqueName :
            [reg |-> MapSet(reg, name, uniqueName), id |-> uniqueName]))

(***************************************************************************)
(* generateTypeFromFormData                                                *)
(***************************************************************************)
\* application/x-www-form-urlencoded decoding of one name or value: "+" is a
\* space. Percent escapes are not modelled (no input holds "%").
FormDecode(s) == [i \in 1..Len(s) |-> IF s[i] = "+" THEN " " ELSE s[i]]

FormPair(piece) ==
    Bind(FindAny(piece, 1, {"="}), LAMBDA eq :
        [key |-> FormDecode(SubSeq(piece, 1, eq - 1)),
         value |-> FormDecode(SubSeq(piece, eq + 1, Len(piece)))])

\* new URLSearchParams(init).entries(): the pairs in order, duplicates kept.
URLSearchParams(init) ==
    Bind(SelectNonEmpty(Split(IF startsWith(init, <<"?">>) THEN Tail(init) ELSE init, "&")),
         LAMBDA pieces : [i \in 1..Len(pieces) |-> FormPair(pieces[i])])

\* /^-?\d+$/.test(value)
IsSignedDigits(value) ==
    LET digits == IF startsWith(value, <<"-">>) THEN Tail(value) ELSE value
    IN digits # <<>> /\ \A i \in 1..Len(digits) : digits[i] \in Digit

\* /^true|false$/i.test(value): the alternatives are "^true" and "false$".
IsTrueOrFalse(value) ==
    Bind(toLowerCase(value), LAMBDA lower :
        startsWith(lower, T_true) \/ endsWith(lower, T_false))

FormValueType(value) ==
    IF IsSignedDigits(value) THEN T_number
    ELSE IF IsTrueOrFalse(value) THEN T_boolean
    ELSE T_string

\* Map.set on an insertion-ordered Map kept as a sequence of [key, value].
OrderedSet(m, k, v) ==
    IF \E i \in 1..Len(m) : m[i].key = k
    THEN [i \in 1..Len(m) |-> IF m[i].key = k THEN [key |-> k, value |-> v] ELSE m[i]]
    ELSE Append(m, [key |-> k, value |-> v])

\* `interface ${name} {\n${properties.map(`  ${prop}: ${type};`).join("\n")}\n}`
InterfaceText(name, properties) ==
    T_interface \o <<" ">> \o name \o <<" ", "{", "\n">>
    \o Join([i \in 1..Len(properties) |->
               <<" ", " ">> \o properties[i].key \o <<":", " ">>
               \o properties[i].value \o <<";">>], <<"\n">>)
    \o <<"\n", "}">>

\* The for loop of generateTypeFromFormData over params.entries().
RECURSIVE FormLoop(_, _, _, _)
FormLoop(reg, params, i, properties) ==
    IF i > Len(params) THEN [reg |-> reg, properties |-> properties]
    ELSE Bind(normalizePropertyName(reg, params[i].key), LAMBDA n :
         Bind(OrderedSet(properties, n.id, FormValueType(params[i].value)), LAMBDA set :
            FormLoop(n.reg, params, i + 1, set)))

\* URLSearchParams never throws on a string, so the catch is not reached.
generateTypeFromFormData(reg, name, formData) ==
    Bind(URLSearchParams(formData), LAMBDA params :
    Bind(FormLoop(reg, params, 1, <<>>), LAMBDA r :
        [reg |-> r.reg, text |-> InterfaceText(name, r.properties)]))

(***************************************************************************)
(* JSON.parse                                                              *)
(***************************************************************************)
\* A parsed value: t is what typeof gives ("object" for null and arrays too),
\* kind tells them apart, falsy is !value, keys/elems hold an object's
\* members or an array's elements.
Scalar(t, kind, falsy) ==
    [t |-> t, kind |-> kind, falsy |-> falsy, keys |-> <<>>, elems |-> <<>>]
ObjectValue(keys, elems) ==
    [t |-> "object", kind |-> "object", falsy |-> FALSE, keys |-> keys, elems |-> elems]
ArrayValue(elems) ==
    [t |-> "object", kind |-> "array", falsy |-> FALSE, keys |-> <<>>, elems |-> elems]

SyntaxError(i) == [ok |-> FALSE, v |-> Scalar("undefined", "undefined", TRUE), i |-> i]
Parsed(v, i) == [ok |-> TRUE, v |-> v, i |-> i]

SkipSpace(s, i) == RunEnd(s, i, Space \cup {"\r"})

\* An object keeps the position of a key's first occurrence and its last value.
PutMember(keys, elems, k, v) ==
    IF \E j \in 1..Len(keys) : keys[j] = k
    THEN [keys |-> keys,
          elems |-> [j \in 1..Len(elems) |-> IF keys[j] = k THEN v ELSE elems[j]]]
    ELSE [keys |-> Append(keys, k), elems |-> Append(elems, v)]

RECURSIVE ParseValue(_, _)
RECURSIVE ParseValueAt(_, _)
RECURSIVE AfterMember(_, _, _, _, _)
RECURSIVE ParseMembers(_, _, _, _)
RECURSIVE ParseElements(_, _, _)

\* A string from its opening quote at i: the index of its closing quote, or
\* 0 when an escape, a line end or the end of the text comes first.
StringEnd(s, i) ==
    Bind(FindAny(s, i + 1, {"\"", "\\", "\n"}), LAMBDA j :
        IF j <= Len(s) /\ s[j] = "\"" THEN j ELSE 0)

\* Integers, strings without escapes, true, false, null, arrays and objects,
\* from the first character of the value at i.
ParseValueAt(s, i) ==
    IF i > Len(s) THEN SyntaxError(i)
    ELSE IF s[i] = "{" THEN
         Bind(SkipSpace(s, i + 1), LAMBDA j :
            IF j <= Len(s) /\ s[j] = "}" THEN Parsed(ObjectValue(<<>>, <<>>), j + 1)
            ELSE ParseMembers(s, j, <<>>, <<>>))
    ELSE IF s[i] = "[" THEN
         Bind(SkipSpace(s, i + 1), LAMBDA j :
            IF j <= Len(s) /\ s[j] = "]" THEN Parsed(ArrayValue(<<>>), j + 1)
            ELSE ParseElements(s, j, <<>>))
    ELSE IF s[i] = "\"" THEN
         Bind(StringEnd(s, i), LAMBDA q :
            IF q = 0 THEN SyntaxError(i)
            ELSE Parsed(Scalar("string", "string", q = i + 1), q + 1))
    ELSE IF s[i] \in Digit \cup {"-"} THEN
         Bind(IF s[i] = "-" THEN i + 1 ELSE i, LAMBDA a :
         Bind(RunEnd(s, a, Digit), LAMBDA b :
            IF b = a \/ (b > a + 1 /\ s[a] = "0") THEN SyntaxError(a)
            ELSE Parsed(Scalar("number", "number", SubSeq(s, a, b - 1) = <<"0">>), b)))
    ELSE IF StartsWithAt(s, i, T_true)
         THEN Parsed(Scalar("boolean", "boolean", FALSE), i + Len(T_true))
    ELSE IF StartsWithAt(s, i, T_false)
         THEN Parsed(Scalar("boolean", "boolean", TRUE), i + Len(T_false))
    ELSE IF StartsWithAt(s, i, T_null)
         THEN Parsed(Scalar("object", "null", TRUE), i + Len(T_null))
    ELSE SyntaxError(i)

ParseValue(s, i0) == Bind(SkipSpace(s, i0), LAMBDA i : ParseValueAt(s, i))

\* After a member's value val: the closing brace or the next member.
AfterMember(s, val, keys, elems, key) ==
    Bind(SkipSpace(s, val.i), LAMBDA next :
    Bind(PutMember(keys, elems, key, val.v), LAMBDA m :
        IF ~val.ok \/ next > Len(s) THEN SyntaxError(next)
        ELSE IF s[next] = "}" THEN Parsed(ObjectValue(m.keys, m.elems), next + 1)
        ELSE IF s[next] = ","
             THEN Bind(SkipSpace(s, next + 1),
                       LAMBDA after : ParseMembers(s, after, m.keys, m.elems))
        ELSE SyntaxError(next)))

\* From the first character of a member's key to after the closing brace.
ParseMembers(s, i, keys, elems) ==
    IF i > Len(s) \/ s[i] # "\"" THEN SyntaxError(i)
    ELSE Bind(StringEnd(s, i), LAMBDA q :
         Bind(SkipSpace(s, q + 1), LAMBDA colon :
            IF q = 0 \/ colon > Len(s) \/ s[colon] # ":" THEN SyntaxError(i)
            ELSE Bind(ParseValue(s, colon + 1), LAMBDA val :
                    AfterMember(s, val, keys, elems, SubSeq(s, i + 1, q - 1)))))

\* From the first character of an element to after the closing bracket.
ParseElements(s, i, elems) ==
    Bind(ParseValue(s, i), LAMBDA val :
    Bind(SkipSpace(s, val.i), LAMBDA next :
    Bind(Append(elems, val.v), LAMBDA more :
        IF ~val.ok \/ next > Len(s) THEN SyntaxError(next)
        ELSE IF s[next] = "]" THEN Parsed(ArrayValue(more), next + 1)
        ELSE IF s[next] = "," THEN ParseElements(s, next + 1, more)
        ELSE SyntaxError(next))))

\* JSON.parse(text): ok = FALSE stands for the SyntaxError it throws.
JSONParse(text) ==
    Bind(ParseValue(text, 1), LAMBDA r :
        IF r.ok /\ SkipSpace(text, r.i) > Len(text) THEN r ELSE SyntaxError(r.i))

(***************************************************************************)
(* jsonToTS (the json-to-ts package), generateTypeFromJSON,                *)
(* generateTypeFromData                                                    *)
(***************************************************************************)
IsObject(v) == v.kind = "object"
IsArrayOfObjects(v) ==
    v.kind = "array" /\ v.elems # <<>> /\ \A i \in 1..Len(v.elems) : IsObject(v.elems[i])

\* The type json-to-ts names for a member. Every payload of the model has
\* scalar members; a nested object or array would add interfaces of its own.
MemberType(v) ==
    IF v.kind = "number" THEN T_number
    ELSE IF v.kind = "string" THEN T_string
    ELSE IF v.kind = "boolean" THEN T_boolean
    ELSE T_any

Members(o) == [j \in 1..Len(o.keys) |-> [key |-> o.keys[j], v |-> o.elems[j]]]

\* The members of the objects to describe, merged in first-occurrence order.
RECURSIVE MergeMembers(_, _, _)
MergeMembers(objects, i, acc) ==
    IF i > Len(objects) THEN acc
    ELSE Bind(acc \o SelectSeq(Members(objects[i]),
                               LAMBDA m : \A a \in 1..Len(acc) : acc[a].key # m.key),
              LAMBDA merged : MergeMembers(objects, i + 1, merged))

\* A key some object lacks is optional.
IsOptional(objects, key) ==
    \E a \in 1..Len(objects) : \A b \in 1..Len(objects[a].keys) : objects[a].keys[b] # key

\* propertyFormatter applied to each member name, in order.
RECURSIVE FormatMembers(_, _, _, _, _)
FormatMembers(reg, objects, members, i, properties) ==
    IF i > Len(members) THEN [reg |-> reg, properties |-> properties]
    ELSE Bind(normalizePropertyName(reg, members[i].key), LAMBDA n :
         Bind(Append(properties,
                     [key |-> IF IsOptional(objects, members[i].key)
                              THEN n.id \o <<"?">> ELSE n.id,
                      value |-> MemberType(members[i].v)]), LAMBDA more :
            FormatMembers(n.reg, objects, members, i + 1, more)))

\* jsonToTS(data, {rootName, propertyFormatter}): threw stands for its
\* Error "Only (Object) and (Array of Object) are supported".
jsonToTS(reg, data, rootName) ==
    IF ~(IsObject(data) \/ IsArrayOfObjects(data))
    THEN [threw |-> TRUE, reg |-> reg, types |-> <<>>]
    ELSE Bind(IF IsObject(data) THEN <<data>> ELSE data.elems, LAMBDA objects :
         Bind(MergeMembers(objects, 1, <<>>), LAMBDA members :
         Bind(FormatMembers(reg, objects, members, 1, <<>>), LAMBDA r :
            [threw |-> FALSE, reg |-> r.reg,
             types |-> <<InterfaceText(rootName, r.properties)>>])))

\* type.replace(/\bexport\s+/g, ""), from index i on.
RECURSIVE RemoveExport(_, _)
RemoveExport(s, i) ==
    LET export == <<"e","x","p","o","r","t">>
    IN Bind(FindText(s, i, export), LAMBDA at :
          IF at > Len(s) THEN SubSeq(s, i, Len(s))
          ELSE Bind(RunEnd(s, at + Len(export), Space), LAMBDA b :
                  IF b > at + Len(export) /\ (at = 1 \/ s[at - 1] \notin Word)
                  THEN SubSeq(s, i, at - 1) \o RemoveExport(s, b)
                  ELSE SubSeq(s, i, at) \o RemoveExport(s, at + 1)))

\* The loop of generateTypeFromJSON: the first type of each hash is kept.
RECURSIVE UniqueTypes(_, _, _)
UniqueTypes(types, i, uniqueTypes) ==
    IF i > Len(types) THEN uniqueTypes
    ELSE Bind(RemoveExport(types[i], 1), LAMBDA cleanType :
         Bind(hashType(cleanType), LAMBDA hash :
         Bind(IF \E j \in 1..Len(uniqueTypes) : uniqueTypes[j].key = hash
              THEN uniqueTypes
              ELSE Append(uniqueTypes, [key |-> hash, value |-> types[i]]), LAMBDA more :
            UniqueTypes(types, i + 1, more))))

generateTypeFromJSON(reg, name, data) ==
    Bind(jsonToTS(reg, data, name), LAMBDA t :
    Bind(UniqueTypes(t.types, 1, <<>>), LAMBDA u :
        [threw |-> t.threw, reg |-> t.reg,
         text |-> Join([i \in 1..Len(u) |-> u[i].value], <<"\n">>)]))

\* `type ${name} = any;`
AnyText(name) == T_type \o <<" ">> \o name \o <<" ", "=", " ">> \o T_any \o <<";">>

\* The try block of generateTypeFromData once JSON.parse returned parsed.
InferFromParsed(reg, name, parsed) ==
    IF parsed.falsy \/ parsed.t # "object"
    THEN \* throw new Error("Invalid JSON: not an object"), caught: not a SyntaxError
         [reg |-> reg, text |-> AnyText(name), ran |-> <<>>]
    ELSE Bind(generateTypeFromJSON(reg, name, parsed), LAMBDA j :
            [reg |-> j.reg,
             text |-> IF j.threw THEN AnyText(name) ELSE j.text,
             ran |-> <<"generateTypeFromJSON">>])

FromFormData(reg, name, data) ==
    Bind(generateTypeFromFormData(reg, name, data), LAMBDA f :
        [reg |-> f.reg, text |-> f.text, ran |-> <<"generateTypeFromFormData">>])

\* generateTypeFromData(name, data, mimeType) for a text payload. Returns the
\* registry after the call, the text returned, and the inference functions
\* the call ran, in order.
generateTypeFromData(reg, name, data, mimeType) ==
    IF includes(mimeType, T_formMime) THEN FromFormData(reg, name, data)
    ELSE Bind(JSONParse(data), LAMBDA parsed :
            IF parsed.ok THEN InferFromParsed(reg, name, parsed.v)
            ELSE \* catch: error instanceof SyntaxError && typeof data === "string"
                 FromFormData(reg, name, data))

(***************************************************************************)
(* generateFromHar: the steps of one run                                   *)
(***************************************************************************)
\* A HarEntry: request.method, request.url, request.postData and
\* response.content. An absent or empty text is <<>>, an absent mime type too.
Entry(method, url, postText, postMime, contentText, contentMime) ==
    [method |-> method, url |-> url,
     postData |-> [text |-> postText, mimeType |-> postMime],
     content |-> [text |-> contentText, mimeType |-> contentMime]]

T_defaultParams == <<"{","[","k","e","y",":"," ","s","t","r","i","n","g","]",":"," ","s","t","r","i","n","g"," ","|"," ","n","u","m","b","e","r"," ","|"," ","b","o","o","l","e","a","n"," ","|"," ","u","n","d","e","f","i","n","e","d","}">>
T_paramMember == <<"s","t","r","i","n","g"," ","|"," ","n","u","m","b","e","r"," ","|"," ","b","o","o","l","e","a","n">>

NoRun == "none"

\* The locals of a run before its file read resolves.
InitialLocals ==
    [pc |-> "reading", holds |-> FALSE, entries |-> <<>>, endpointGroups |-> <<>>,
     typeRegistry |-> <<>>, output |-> <<>>, gi |-> 0, ei |-> 0,
     paramsType |-> <<>>, bodyType |-> <<>>, responseType |-> <<>>]

Item(kind, name, text) == [kind |-> kind, name |-> name, text |-> text]

Threw(s) == [s EXCEPT !.pc = "rejected", !.holds = FALSE]

\* ReadResolvedStep without propertyRegistry.clear(); C10 must tell the two
\* apart.
ReadResolvedNoClear(inv, s, reg) ==
    Bind(SelectSeq(inv.har, LAMBDA e : startsWith(e.url, T_http)), LAMBDA kept :
        [reg |-> reg,
         s |-> [s EXCEPT !.pc = IF kept = <<>> THEN "groups" ELSE "grouping",
                         !.holds = TRUE, !.entries = kept, !.ei = 1, !.gi = 1]])

\* Lines 251-291: the har is parsed and valid, propertyRegistry is cleared,
\* the entries are filtered, both Maps are created.
ReadResolvedStep(inv, s, reg) ==
    Bind(SelectSeq(inv.har, LAMBDA e : startsWith(e.url, T_http)), LAMBDA kept :
        [reg |-> EmptyMap,
         s |-> [s EXCEPT !.pc = IF kept = <<>> THEN "groups" ELSE "grouping",
                         !.holds = TRUE, !.entries = kept, !.ei = 1, !.gi = 1]])

GroupKey(method, resource) == method \o <<"_">> \o resource

\* endpointGroups.has(key) / set(key, []) / get(key).push(entry)
PushToGroup(groups, key, entry) ==
    IF \E i \in 1..Len(groups) : groups[i].key = key
    THEN [i \in 1..Len(groups) |->
            IF groups[i].key = key
            THEN [key |-> key, value |-> Append(groups[i].value, entry)]
            ELSE groups[i]]
    ELSE Append(groups, [key |-> key, value |-> <<entry>>])

\* Lines 292-300, one iteration: the entry joins the group of its key; new URL
\* throws on a url it cannot parse, and the run is rejected.
GroupEntryStep(inv, s, reg) ==
    Bind(s.entries[s.ei], LAMBDA entry :
    Bind(ParseURL(entry.url), LAMBDA url :
        [reg |-> reg,
         s |-> IF ~url.ok THEN Threw(s)
               ELSE [s EXCEPT !.endpointGroups =
                                  PushToGroup(s.endpointGroups,
                                              GroupKey(entry.method, getResourceName(url)),
                                              entry),
                              !.ei = s.ei + 1,
                              !.pc = IF s.ei = Len(s.entries) THEN "groups"
                                     ELSE "grouping"]]))

\* Map.set(key, ...) unless the Map has the key, over a list of keys.
RECURSIVE AddKeys(_, _, _)
AddKeys(keys, more, j) ==
    IF j > Len(more) THEN keys
    ELSE Bind(IF \E a \in 1..Len(keys) : keys[a] = more[j] THEN keys
              ELSE Append(keys, more[j]),
              LAMBDA added : AddKeys(added, more, j + 1))

\* The keys of allQueryParams, in insertion order (lines 317-326).
RECURSIVE QueryKeys(_, _, _)
QueryKeys(groupEntries, i, keys) ==
    IF i > Len(groupEntries) THEN keys
    ELSE Bind(URLSearchParams(ParseURL(groupEntries[i].url).search), LAMBDA params :
         Bind(AddKeys(keys, [j \in 1..Len(params) |-> params[j].key], 1), LAMBDA added :
            QueryKeys(groupEntries, i + 1, added)))

\* The map over allQueryParams of lines 330-335.
RECURSIVE ParamLines(_, _, _, _)
ParamLines(reg, keys, i, lines) ==
    IF i > Len(keys) THEN [reg |-> reg, lines |-> lines]
    ELSE Bind(normalizePropertyName(reg, keys[i]), LAMBDA n :
         Bind(Append(lines, <<" ", " ">> \o n.id \o <<"?", ":", " ">>
                            \o T_paramMember \o <<";">>), LAMBDA more :
            ParamLines(n.reg, keys, i + 1, more)))

BaseTypeName(group) == normalizeTypeName(getResourceName(ParseURL(group.value[1].url)))

\* Lines 328-339: the parameter interface is emitted and names paramsType.
EmitParams(s, paramsTypeName, p) ==
    [reg |-> p.reg,
     s |-> [s EXCEPT !.pc = "request", !.ei = 1, !.paramsType = paramsTypeName,
                     !.bodyType = T_undefined,
                     !.output = Append(s.output,
                                       Item("params", paramsTypeName,
                                            T_interface \o <<" ">> \o paramsTypeName
                                            \o <<" ", "{", "\n">>
                                            \o Join(p.lines, <<"\n">>) \o <<"\n", "}">>))]]

\* Lines 304-342: the names of the group and its parameter type.
BeginGroupStep(inv, s, reg) ==
    Bind(s.endpointGroups[s.gi], LAMBDA group :
    Bind(QueryKeys(group.value, 1, <<>>), LAMBDA keys :
        IF keys = <<>>
        THEN [reg |-> reg,
              s |-> [s EXCEPT !.pc = "request", !.ei = 1, !.paramsType = T_defaultParams,
                              !.bodyType = T_undefined]]
        ELSE Bind(ParamLines(reg, keys, 1, <<>>), LAMBDA p :
                EmitParams(s, BaseTypeName(group) \o T_Params, p))))

\* `${name}${typeRegistry.size || ""}`
SizedName(name, size) == IF size = 0 THEN name ELSE name \o NatToString(size, 10)

\* FindByHash with the search starting at the second entry; C2 must tell the
\* two apart.
FindSkippingFirst(registry, hash) ==
    IF \E i \in 2..Len(registry) : registry[i].value.hash = hash
    THEN <<registry[CHOOSE i \in 2..Len(registry) :
                      /\ registry[i].value.hash = hash
                      /\ \A j \in 2..(i - 1) : registry[j].value.hash # hash].value>>
    ELSE <<>>

\* Array.from(typeRegistry.values()).find((t) => t.hash === hash)
FindByHash(registry, hash) ==
    IF \E i \in 1..Len(registry) : registry[i].value.hash = hash
    THEN <<registry[CHOOSE i \in 1..Len(registry) :
                      /\ registry[i].value.hash = hash
                      /\ \A j \in 1..(i - 1) : registry[j].value.hash # hash].value>>
    ELSE <<>>

\* Lines 357-367 and 388-398: the candidate is inserted and emitted, or
\* resolved to the existing type.
Resolve(mergeTypes, s, reg, typeName, definition, hash) ==
    Bind(FindByHash(s.typeRegistry, hash), LAMBDA existingType :
        IF existingType = <<>> \/ ~mergeTypes
        THEN [reg |-> reg,
              typeRegistry |-> OrderedSet(s.typeRegistry, typeName,
                                          [name |-> typeName, definition |-> definition,
                                           hash |-> hash]),
              output |-> Append(s.output, Item("type", typeName, definition)),
              name |-> typeName]
        ELSE [reg |-> reg, typeRegistry |-> s.typeRegistry, output |-> s.output,
              name |-> existingType[1].name])

\* Lines 345-367 and 376-398: the candidate is named, inferred, hashed and
\* resolved. Returns the registry of identifiers, the typeRegistry, the
\* output and the name resolved to.
Register(inv, s, reg, stem, payload) ==
    Bind(SizedName(stem, Len(s.typeRegistry)), LAMBDA typeName :
    Bind(generateTypeFromData(reg, typeName, payload.text, payload.mimeType), LAMBDA d :
    Bind(hashType(d.text), LAMBDA hash :
        Resolve(inv.mergeTypes, s, d.reg, typeName, d.text, hash))))

ResponseBaseOf(name) == T_ResponseBase \o <<"<">> \o name \o <<">">>

\* The loop variable of a loop over groupEntries moves on; after the last
\* entry the next loop, at pc after, starts.
NextEntry(s, group, here, after) ==
    IF s.ei = Len(group.value) THEN [s EXCEPT !.ei = 1, !.pc = after]
    ELSE [s EXCEPT !.ei = s.ei + 1, !.pc = here]

\* Lines 343-369, one iteration of the request body loop; line 372 after it.
RequestBodyStep(inv, s, reg) ==
    Bind(s.endpointGroups[s.gi], LAMBDA group :
    Bind(group.value[s.ei], LAMBDA entry :
    Bind(IF s.ei = Len(group.value) THEN ResponseBaseOf(T_unknown) ELSE s.responseType,
         LAMBDA initialType :
        IF entry.postData.text = <<>>
        THEN [reg |-> reg,
              s |-> [NextEntry(s, group, "request", "response")
                       EXCEPT !.responseType = initialType]]
        ELSE Bind(Register(inv, s, reg, BaseTypeName(group) \o T_Request, entry.postData),
                  LAMBDA g :
                [reg |-> g.reg,
                 s |-> [NextEntry(s, group, "request", "response")
                          EXCEPT !.typeRegistry = g.typeRegistry, !.output = g.output,
                                 !.bodyType = g.name,
                                 !.responseType = initialType]]))))

\* Lines 373-406, one iteration of the response loop.
ResponseBodyStep(inv, s, reg) ==
    Bind(s.endpointGroups[s.gi], LAMBDA group :
    Bind(group.value[s.ei], LAMBDA entry :
        IF entry.content.text = <<>>
        THEN [reg |-> reg, s |-> NextEntry(s, group, "response", "function")]
        ELSE Bind(Register(inv, s, reg, BaseTypeName(group) \o T_Response, entry.content),
                  LAMBDA g :
                [reg |-> g.reg,
                 s |-> [NextEntry(s, group, "response", "function")
                          EXCEPT !.typeRegistry = g.typeRegistry, !.output = g.output,
                                 !.responseType = ResponseBaseOf(g.name)]])))

\* Lines 409-441: the function of the group, by its name and the three type
\* names of its signature (the body of the template is not modelled).
EmitFunctionStep(inv, s, reg) ==
    Bind(s.endpointGroups[s.gi].value[1], LAMBDA request :
        [reg |-> reg,
         s |-> [s EXCEPT !.pc = "groups", !.gi = s.gi + 1,
                         !.output = Append(s.output,
                                           Item("function",
                                                createFunctionName(request.url, request.method),
                                                s.paramsType \o <<",">> \o s.bodyType
                                                \o <<",">> \o s.responseType))]])

\* Line 445: await prettier.format(output, prettierConfig).
AwaitFormatStep(inv, s, reg) ==
    [reg |-> reg, s |-> [s EXCEPT !.pc = "formatting", !.holds = FALSE]]

\* The step a run takes next while it holds the thread.
StepOf(inv, s, reg) ==
    CASE s.pc = "reading" -> ReadResolvedStep(inv, s, reg)
      [] s.pc = "grouping" -> GroupEntryStep(inv, s, reg)
      [] s.pc = "groups" /\ s.gi <= Len(s.endpointGroups) -> BeginGroupStep(inv, s, reg)
      [] s.pc = "groups" /\ s.gi > Len(s.endpointGroups) -> AwaitFormatStep(inv, s, reg)
      [] s.pc = "request" -> RequestBodyStep(inv, s, reg)
      [] s.pc = "response" -> ResponseBodyStep(inv, s, reg)
      [] s.pc = "function" -> EmitFunctionStep(inv, s, reg)
      [] OTHER -> [reg |-> reg, s |-> s]

\* The synchronous part of a run, from the resolved file read to the await of
\* the formatter (or to the throw).
RECURSIVE RunToAwait(_, _, _)
RunToAwait(inv, s, reg) ==
    IF s.pc \in {"formatting", "rejected"} THEN [reg |-> reg, s |-> s]
    ELSE Bind(StepOf(inv, s, reg), LAMBDA x : RunToAwait(inv, x.s, x.reg))

(***************************************************************************)
(* Inputs                                                                  *)
(***************************************************************************)
MaxEntries == 2      \* entries of a capture
MaxRegistry == 3     \* identifiers registered before unit calls stop

GET == <<"G","E","T">>
POST == <<"P","O","S","T">>

Origin == <<"h","t","t","p",":","/","/","h">>
UrlUsers1 == Origin \o <<"/","u","/","1">>
UrlUsers2 == Origin \o <<"/","u","/","2">>
UrlQuery == Origin \o <<"/","u","?","a",".","b","=","1">>
UrlQueryDash == Origin \o <<"/","u","?","a","-","b","=","1">>
UrlRelative == <<"/","u","/","3">>
UrlHttpPrefix == <<"h","t","t","p","x","/","u">>
UrlFtp == <<"f","t","p",":","/","/","h","/","u">>

JsonId1 == <<"{","\"","i","d","\"",":","1","}">>
JsonId2 == <<"{","\"","i","d","\"",":"," ","2","}">>
JsonIdText == <<"{","\"","i","d","\"",":","\"","x","\"","}">>
JsonScalar == <<"7">>
JsonNull == T_null
JsonArray == <<"[","{","\"","i","d","\"",":","1","}","]">>
JsonArrayOfNumbers == <<"[","1","]">>
NotJson == <<"n","o","t"," ","j","s","o","n"," ","{">>
FormExample == <<"i","d","=","4","2","&","a","c","t","i","v","e","=","t","r","u","e","&",
                 "n","a","m","e","=","b","o","b">>
FormTruthy == <<"x","=","t","r","u","e","r">>
FormFalsy == <<"a",".","b","=","n","o","t","F","a","l","s","e">>
FormDash == <<"a","-","b","=","-","7","&","t","=","F","A","L","S","E">>

None == <<>>

CaptureEntries ==
    { Entry(GET, UrlUsers1, None, None, JsonId1, T_jsonMime),
      Entry(GET, UrlUsers2, None, None, JsonId2, T_jsonMime),
      Entry(GET, UrlUsers1, None, None, JsonScalar, T_jsonMime),
      Entry(GET, UrlUsers1, None, None, NotJson, T_jsonMime),
      Entry(GET, UrlQuery, None, None, JsonIdText, None),
      Entry(POST, UrlQuery, JsonId1, T_jsonMime, JsonId2, T_jsonMime),
      Entry(POST, UrlQueryDash, FormDash, T_formMime, JsonNull, T_jsonMime),
      Entry(GET, UrlRelative, None, None, JsonId1, T_jsonMime),
      Entry(GET, UrlHttpPrefix, None, None, None, None),
      Entry(GET, UrlFtp, None, None, JsonId1, T_jsonMime) }

ConcurrentEntries ==
    { Entry(GET, UrlQuery, None, None, JsonIdText, None),
      Entry(POST, UrlQueryDash, FormDash, T_formMime, JsonId1, T_jsonMime) }

SeqsUpTo(S, n) == UNION {[1..k -> S] : k \in 0..n}

Captures == SeqsUpTo(CaptureEntries, MaxEntries)
ConcurrentCaptures == SeqsUpTo(ConcurrentEntries, MaxEntries)

RawNames == { <<"a",".","b">>, <<"a","-","b">>, <<"a","_","b","_","1">>, <<"a","_","b">>,
              <<"_","a",".","b">>, <<"e","p",".","a","_","b">> }

Payloads == { JsonId1, JsonIdText, JsonScalar, JsonNull, JsonArray, JsonArrayOfNumbers,
              NotJson, FormExample, FormTruthy, FormFalsy, FormDash }

MimeTypes == { T_jsonMime, T_formMime }

UnitTypeName == <<"T">>

(***************************************************************************)
(* Unit calls: normalizePropertyName and generateTypeFromData on their own *)
(***************************************************************************)
NoCall == [fn |-> "none", name |-> <<>>, data |-> <<>>, mimeType |-> <<>>,
           text |-> <<>>, ran |-> <<>>]

NoRuns == [r \in {} |-> 0]

InitUnit ==
    /\ propertyRegistry = EmptyMap
    /\ call = NoCall
    /\ invocations = NoRuns /\ pc = NoRuns /\ entries = NoRuns
    /\ endpointGroups = NoRuns /\ typeRegistry = NoRuns /\ output = NoRuns
    /\ gi = NoRuns /\ ei = NoRuns /\ paramsType = NoRuns /\ bodyType = NoRuns
    /\ responseType = NoRuns
    /\ running = NoRun

CallNormalizePropertyName(name) ==
    /\ Cardinality(DOMAIN propertyRegistry) < MaxRegistry
    /\ LET n == normalizePropertyName(propertyRegistry, name)
       IN /\ propertyRegistry' = n.reg
          /\ call' = [NoCall EXCEPT !.fn = "normalizePropertyName", !.name = name,
                                    !.text = n.id]
    /\ UNCHANGED runVars

CallGenerateTypeFromData(data, mimeType) ==
    /\ Cardinality(DOMAIN propertyRegistry) < MaxRegistry
    /\ LET d == generateTypeFromData(propertyRegistry, UnitTypeName, data, mimeType)
       IN /\ propertyRegistry' = d.reg
          /\ call' = [fn |-> "generateTypeFromData", name |-> UnitTypeName, data |-> data,
                      mimeType |-> mimeType, text |-> d.text, ran |-> d.ran]
    /\ UNCHANGED runVars

NextUnit ==
    \/ \E name \in RawNames : CallNormalizePropertyName(name)
    \/ \E data \in Payloads, mimeType \in MimeTypes : CallGenerateTypeFromData(data, mimeType)

SpecUnit == InitUnit /\ [][NextUnit]_vars

(***************************************************************************)
(* Runs of generateFromHar in one process                                  *)
(***************************************************************************)
Runs == DOMAIN invocations

\* The locals of run r, as the step operators take them.
Locals(r) ==
    [pc |-> pc[r], holds |-> running = r, entries |-> entries[r],
     endpointGroups |-> endpointGroups[r], typeRegistry |-> typeRegistry[r],
     output |-> output[r], gi |-> gi[r], ei |-> ei[r], paramsType |-> paramsType[r],
     bodyType |-> bodyType[r], responseType |-> responseType[r]]

\* Run r took the step with result x.
Commit(r, x) ==
    /\ propertyRegistry' = x.reg
    /\ pc' = [pc EXCEPT ![r] = x.s.pc]
    /\ entries' = [entries EXCEPT ![r] = x.s.entries]
    /\ endpointGroups' = [endpointGroups EXCEPT ![r] = x.s.endpointGroups]
    /\ typeRegistry' = [typeRegistry EXCEPT ![r] = x.s.typeRegistry]
    /\ output' = [output EXCEPT ![r] = x.s.output]
    /\ gi' = [gi EXCEPT ![r] = x.s.gi]
    /\ ei' = [ei EXCEPT ![r] = x.s.ei]
    /\ paramsType' = [paramsType EXCEPT ![r] = x.s.paramsType]
    /\ bodyType' = [bodyType EXCEPT ![r] = x.s.bodyType]
    /\ responseType' = [responseType EXCEPT ![r] = x.s.responseType]
    /\ running' = IF x.s.holds THEN r ELSE NoRun
    /\ UNCHANGED <<call, invocations>>

\* Every run is at line 250, awaiting its file read; the module has just been
\* loaded, so propertyRegistry is the empty Map of line 121.
InitRuns(runs, hars, merges) ==
    /\ invocations \in [runs -> [har : hars, mergeTypes : merges]]
    /\ propertyRegistry = EmptyMap
    /\ call = NoCall
    /\ running = NoRun
    /\ pc = [r \in runs |-> InitialLocals.pc]
    /\ entries = [r \in runs |-> InitialLocals.entries]
    /\ endpointGroups = [r \in runs |-> InitialLocals.endpointGroups]
    /\ typeRegistry = [r \in runs |-> InitialLocals.typeRegistry]
    /\ output = [r \in runs |-> InitialLocals.output]
    /\ gi = [r \in runs |-> InitialLocals.gi]
    /\ ei = [r \in runs |-> InitialLocals.ei]
    /\ paramsType = [r \in runs |-> InitialLocals.paramsType]
    /\ bodyType = [r \in runs |-> InitialLocals.bodyType]
    /\ responseType = [r \in runs |-> InitialLocals.responseType]

Init == InitRuns({"A"}, Captures, BOOLEAN)

\* Two runs of runHarToTs, which passes mergeTypes: true (lines 454-464).
InitConc == InitRuns({"A", "B"}, ConcurrentCaptures, {TRUE})

\* Line 250 resolves: the run takes the thread and runs lines 251-291.
ReadResolved(r) ==
    /\ pc[r] = "reading" /\ running = NoRun
    /\ \E x \in {ReadResolvedStep(invocations[r], Locals(r), propertyRegistry)} : Commit(r, x)

GroupEntry(r) ==
    /\ pc[r] = "grouping" /\ running = r
    /\ \E x \in {GroupEntryStep(invocations[r], Locals(r), propertyRegistry)} : Commit(r, x)

BeginGroup(r) ==
    /\ pc[r] = "groups" /\ running = r /\ gi[r] <= Len(endpointGroups[r])
    /\ \E x \in {BeginGroupStep(invocations[r], Locals(r), propertyRegistry)} : Commit(r, x)

RequestBody(r) ==
    /\ pc[r] = "request" /\ running = r
    /\ \E x \in {RequestBodyStep(invocations[r], Locals(r), propertyRegistry)} : Commit(r, x)

ResponseBody(r) ==
    /\ pc[r] = "response" /\ running = r
    /\ \E x \in {ResponseBodyStep(invocations[r], Locals(r), propertyRegistry)} : Commit(r, x)

EmitFunction(r) ==
    /\ pc[r] = "function" /\ running = r
    /\ \E x \in {EmitFunctionStep(invocations[r], Locals(r), propertyRegistry)} : Commit(r, x)

\* After the last group the run awaits the formatter and gives up the thread.
AwaitFormat(r) ==
    /\ pc[r] = "groups" /\ running = r /\ gi[r] > Len(endpointGroups[r])
    /\ \E x \in {AwaitFormatStep(invocations[r], Locals(r), propertyRegistry)} : Commit(r, x)

\* Line 445 resolves and line 446 awaits the file write.
FormatResolved(r) ==
    /\ pc[r] = "formatting" /\ running = NoRun
    /\ pc' = [pc EXCEPT ![r] = "writing"]
    /\ UNCHANGED <<propertyRegistry, call, invocations, running, entries, endpointGroups,
                   typeRegistry, output, gi, ei, paramsType, bodyType, responseType>>

\* Line 446 resolves and the promise of the run is fulfilled.
WriteResolved(r) ==
    /\ pc[r] = "writing" /\ running = NoRun
    /\ pc' = [pc EXCEPT ![r] = "done"]
    /\ UNCHANGED <<propertyRegistry, call, invocations, running, entries, endpointGroups,
                   typeRegistry, output, gi, ei, paramsType, bodyType, responseType>>

Next ==
    \/ \E r \in Runs : ReadResolved(r)
    \/ \E r \in Runs : GroupEntry(r)
    \/ \E r \in Runs : BeginGroup(r)
    \/ \E r \in Runs : RequestBody(r)
    \/ \E r \in Runs : ResponseBody(r)
    \/ \E r \in Runs : EmitFunction(r)
    \/ \E r \in Runs : AwaitFormat(r)
    \/ \E r \in Runs : FormatResolved(r)
    \/ \E r \in Runs : WriteResolved(r)

Spec == Init /\ [][Next]_vars

SpecConc == InitConc /\ [][Next]_vars

(***************************************************************************)
(* Properties                                                              *)
(***************************************************************************)
CountKind(out, kind) == Cardinality({i \in 1..Len(out) : out[i].kind = kind})

SameCollectionCapture ==
    <<Entry(GET, UrlUsers1, None, None, JsonId1, T_jsonMime),
      Entry(GET, UrlUsers2, None, None, JsonId2, T_jsonMime)>>

\* C1: a finished run over two GET captures of one collection that differ in
\* the trailing id and return the same object shape has exactly one endpoint
\* group, one emitted response type and one emitted function.
C1_SameCollectionCollapses ==
    \A r \in Runs :
        (pc[r] = "done" /\ invocations[r].mergeTypes
            /\ invocations[r].har = SameCollectionCapture)
        => /\ Len(endpointGroups[r]) = 1
           /\ CountKind(output[r], "type") = 1
           /\ CountKind(output[r], "function") = 1

NoSharedHash(registry) ==
    \A i, j \in 1..Len(registry) :
        registry[i].value.hash = registry[j].value.hash => i = j

\* The payload the registration step of run r is about to register, with the
\* stem of its candidate name; text <<>> when the step registers nothing.
Candidate(r) ==
    LET group == endpointGroups[r][gi[r]]
        entry == group.value[ei[r]]
    IN IF pc[r] = "request"
       THEN [payload |-> entry.postData, stem |-> BaseTypeName(group) \o T_Request]
       ELSE [payload |-> entry.content, stem |-> BaseTypeName(group) \o T_Response]

CandidateHash(r) ==
    Bind(Candidate(r), LAMBDA c :
        hashType(generateTypeFromData(propertyRegistry,
                                      SizedName(c.stem, Len(typeRegistry[r])),
                                      c.payload.text, c.payload.mimeType).text))

FirstWithHash(registry, hash) ==
    registry[CHOOSE i \in 1..Len(registry) :
                /\ registry[i].value.hash = hash
                /\ \A j \in 1..(i - 1) : registry[j].value.hash # hash].value

ResolvedTo(r, name) ==
    IF pc[r] = "request" THEN bodyType'[r] = name
    ELSE responseType'[r] = ResponseBaseOf(name)

\* C2: with mergeTypes on, a registration step whose candidate has the hash of
\* a registered definition leaves typeRegistry and the output as they are and
\* resolves to the name of the first definition with that hash; any other
\* registration appends one entry; and no two entries of typeRegistry share a
\* hash after the step.
C2_MergeByHash ==
    [][\A r \in Runs :
          (/\ invocations[r].mergeTypes
           /\ running = r /\ pc[r] \in {"request", "response"}
           /\ Candidate(r).payload.text # <<>>)
          => \E hash \in {CandidateHash(r)} :
                /\ IF \E i \in 1..Len(typeRegistry[r]) : typeRegistry[r][i].value.hash = hash
                   THEN /\ typeRegistry'[r] = typeRegistry[r]
                        /\ output'[r] = output[r]
                        /\ ResolvedTo(r, FirstWithHash(typeRegistry[r], hash).name)
                   ELSE /\ Len(typeRegistry'[r]) = Len(typeRegistry[r]) + 1
                        /\ Len(output'[r]) = Len(output[r]) + 1
                /\ NoSharedHash(typeRegistry'[r])]_vars

\* A response has just resolved to a registered name that is not the name its
\* own candidate would have been inserted under: it was merged.
C2_MergedRegistration ==
    \E r \in Runs :
        /\ invocations[r].mergeTypes /\ pc[r] = "function"
        /\ LET group == endpointGroups[r][gi[r]]
               registry == typeRegistry[r]
           IN /\ group.value[Len(group.value)].content.text # <<>>
              /\ registry # <<>>
              /\ \E i \in 1..Len(registry) :
                    /\ responseType[r] = ResponseBaseOf(registry[i].value.name)
                    /\ registry[i].value.name
                         # SizedName(BaseTypeName(group) \o T_Response, Len(registry) - 1)

\* C3: propertyRegistry is injective: two distinct raw names never map to the
\* same identifier.
C3_RegistryInjective ==
    \A a, b \in DOMAIN propertyRegistry :
        propertyRegistry[a] = propertyRegistry[b] => a = b

\* 'a.b', 'a-b' and 'a_b_1' are all registered, the last one after 'a-b' took
\* the suffixed identifier a_b_1.
C3_SuffixedBaseTaken ==
    /\ {<<"a",".","b">>, <<"a","-","b">>, <<"a","_","b","_","1">>} \subseteq DOMAIN propertyRegistry
    /\ propertyRegistry[<<"a",".","b">>] = <<"a","_","b">>
    /\ propertyRegistry[<<"a","-","b">>] = <<"a","_","b","_","1">>
    /\ propertyRegistry[<<"a","_","b","_","1">>] = <<"a","_","b","_","1","_","1">>

\* An absolute URL is one that parses without a base.
IsAbsolute(url) == ParseURL(url).ok

KeyOf(e) == GroupKey(e.method, getResourceName(ParseURL(e.url)))

\* The stable group-by of es: keys in the order of their first occurrence,
\* each with its entries in the order of es.
StableGroupBy(es) ==
    LET firsts == SelectSeq([i \in 1..Len(es) |-> i],
                            LAMBDA i : \A j \in 1..(i - 1) : KeyOf(es[j]) # KeyOf(es[i]))
    IN [k \in 1..Len(firsts) |->
          [key |-> KeyOf(es[firsts[k]]),
           value |-> SelectSeq(es, LAMBDA e : KeyOf(e) = KeyOf(es[firsts[k]]))]]

\* C4: no run fails, and once a run has grouped its entries endpointGroups is
\* the stable group-by of the entries of the capture whose URL is absolute.
C4_GroupsOfAbsoluteEntries ==
    \A r \in Runs :
        /\ pc[r] # "rejected"
        /\ pc[r] \notin {"reading", "grouping"}
            => endpointGroups[r]
                 = StableGroupBy(SelectSeq(invocations[r].har,
                                           LAMBDA e : IsAbsolute(e.url)))

\* C5: generateTypeFromData on a text that is not JSON, declared
\* application/json, returns the any alias.
C5_MalformedJsonYieldsAny ==
    (/\ call.fn = "generateTypeFromData"
     /\ includes(call.mimeType, T_jsonMime)
     /\ ~JSONParse(call.data).ok)
    => call.text = AnyText(call.name)

\* The reference classifier of form values.
ReferenceValueType(value) ==
    IF IsSignedDigits(value) THEN T_number
    ELSE IF toLowerCase(value) \in {T_true, T_false} THEN T_boolean
    ELSE T_string

\* C6: the interface generateTypeFromData returns for form data gives every
\* key the type the reference classifier gives its value.
C6_FormValuesClassified ==
    (call.fn = "generateTypeFromData" /\ includes(call.mimeType, T_formMime))
    => \E pairs \in {URLSearchParams(call.data)} :
          \A i \in 1..Len(pairs) :
              /\ pairs[i].key \in DOMAIN propertyRegistry
              /\ includes(call.text,
                          <<" ", " ">> \o propertyRegistry[pairs[i].key] \o <<":", " ">>
                          \o ReferenceValueType(pairs[i].value) \o <<";">>)

\* C7: generateTypeFromData never runs generateTypeFromJSON on a payload that
\* parses to a scalar, null or an array.
C7_NonRecordRootNotInferred ==
    (/\ call.fn = "generateTypeFromData"
     /\ ~includes(call.mimeType, T_formMime)
     /\ \E parsed \in {JSONParse(call.data)} : parsed.ok /\ parsed.v.kind # "object")
    => call.ran = <<>>

\* C8: no two type definitions in the output of a run have the same name.
C8_EmittedNamesUnique ==
    \A r \in Runs :
        \A i, j \in 1..Len(output[r]) :
            (/\ output[r][i].kind \in {"params", "type"}
             /\ output[r][j].kind \in {"params", "type"}
             /\ output[r][i].name = output[r][j].name)
            => i = j

\* Inference of a JSON payload fails: the text is malformed, or its root is
\* not an object.
InferenceFails(payload) ==
    /\ payload.text # <<>>
    /\ ~includes(payload.mimeType, T_formMime)
    /\ \E parsed \in {JSONParse(payload.text)} : ~parsed.ok \/ parsed.v.kind # "object"

\* C9: a registration step on an entry whose inference fails changes neither
\* typeRegistry nor the output nor the representative type of the group.
C9_FailedEntrySkipped ==
    [][\A r \in Runs :
          (/\ running = r /\ pc[r] \in {"request", "response"}
           /\ InferenceFails(Candidate(r).payload))
          => /\ typeRegistry'[r] = typeRegistry[r]
             /\ output'[r] = output[r]
             /\ IF pc[r] = "request" THEN bodyType'[r] = bodyType[r]
                ELSE responseType'[r] = responseType[r]]_vars

\* C10: a run is only ever suspended at its awaits while another one holds the
\* thread, and a run that reached its formatter has the output and the
\* typeRegistry it has when it runs alone from a cleared propertyRegistry.
C10_AsWhenAlone ==
    \A r \in Runs :
        /\ (running # NoRun /\ running # r)
            => pc[r] \in {"reading", "formatting", "writing", "done", "rejected"}
        /\ pc[r] \in {"formatting", "writing", "done"}
            => \E alone \in {RunToAwait(invocations[r], InitialLocals, EmptyMap)} :
                  /\ alone.s.pc = "formatting"
                  /\ output[r] = alone.s.output
                  /\ typeRegistry[r] = alone.s.typeRegistry

\* A run that assigned identifiers is suspended at its formatter while another
\* one is registering types.
C10_Interleaved ==
    \E r, q \in Runs :
        /\ r # q
        /\ pc[r] = "formatting" /\ CountKind(output[r], "params") > 0
        /\ running = q /\ pc[q] \in {"request", "response"}
        /\ CountKind(output[q], "params") > 0

====
